---- MODULE Spec2Model ----
(***************************************************************************)
(* A model of BoundaryRestrictable (framework/src/base/                    *)
(* BoundaryRestrictable.C): the construction-time computation of an        *)
(* object's boundary restriction set from its input parameters and the     *)
(* mesh, the three fatal configuration errors it can raise, and the const  *)
(* query methods asked of a successfully constructed object; and of the    *)
(* property value container that follows it in the same file               *)
(* (MaterialProperty<T>, MaterialProperties, _init_helper).                *)
(***************************************************************************)
EXTENDS Integers, Sequences, FiniteSets, TLC

(***************************************************************************)
(* Bounds of the model.                                                    *)
(***************************************************************************)
\* Longest 'boundary' name list given in the input parameters.
MaxNames == 2

\* The largest mesh of the model knows the boundary ids 1..MaxMeshId.
MaxMeshId == 4

\* Largest id set / id vector / name vector handed to a query.
MaxQuery == 2

\* Property value slots that can be allocated (the declared ones included).
MaxSlots == 3

\* Storage arrays that can be allocated over a run.
MaxArrays == 2

\* Largest element count a property value slot is sized for.
MaxSize == 2

\* Bytes of one scalar element in the binary stream (sizeof(T) of the model).
ElemBytes == 2

\* Scalar elements the binary stream has room for.
MaxStream == 2

(***************************************************************************)
(* Reserved values.                                                        *)
(***************************************************************************)
\* Moose::ANY_BOUNDARY_ID, static_cast<BoundaryID>(-1).
ANY_BOUNDARY_ID == -1

\* Moose::ANY_BLOCK_ID, libMesh::Elem::invalid_subdomain_id - 1.
ANY_BLOCK_ID == 65534

\* The reserved boundary name compared against at line 85.
AnyBoundaryName == "ANY_BOUNDARY_ID"

\* The values of the TEST_TYPE enumeration.
ALL == "ALL"

ANY == "ANY"

(***************************************************************************)
(* The universes the inputs are drawn from.                                *)
(***************************************************************************)
\* An id no mesh of the model knows (a name the mesh had to invent an id for).
UnknownId == MaxMeshId + 5

ConcreteNames == {"left", "right"}

BoundaryNames == ConcreteNames \cup {AnyBoundaryName}

\* Ids a concrete name may resolve to.
ResolvedIds == {2, 4}

\* The sets of boundary ids a mesh may know.
MeshIdSets == (SUBSET ResolvedIds) \cup {1..MaxMeshId}

\* Ids a caller may ask a query about.
QueryIds == ResolvedIds \cup {ANY_BOUNDARY_ID, UnknownId}

BlockIds == {1, ANY_BLOCK_ID}

ObjectNames == {"uo"}

SeqsUpTo(S, n) == UNION {[1..k -> S] : k \in 0..n}

SubsetsUpTo(S, n) == {T \in SUBSET S : Cardinality(T) <= n}

(***************************************************************************)
(* Standard-library algorithms, computed as the library computes them on   *)
(* the sorted ranges of std::set.                                          *)
(***************************************************************************)
\* The elements of a std::set in iteration (ascending) order.
RECURSIVE SetRange(_)
SetRange(S) ==
  IF S = {} THEN <<>>
  ELSE LET m == CHOOSE x \in S : \A y \in S : x <= y
       IN  <<m>> \o SetRange(S \ {m})

\* std::set<T>(first, last) / std::set::insert(first, last).
RangeToSet(v) == {v[i] : i \in 1..Len(v)}

\* std::find(first, last, x) != last.
std_find(v, x) == \E i \in 1..Len(v) : v[i] = x

\* std::includes(first1, last1, first2, last2) on sorted ranges.
RECURSIVE std_includes(_, _)
std_includes(r1, r2) ==
  IF r2 = <<>> THEN TRUE
  ELSE IF r1 = <<>> \/ Head(r2) < Head(r1) THEN FALSE
  ELSE IF ~(Head(r1) < Head(r2)) THEN std_includes(Tail(r1), Tail(r2))
  ELSE std_includes(Tail(r1), r2)

\* std::set_difference(first1, last1, first2, last2, back_inserter(diff)).
RECURSIVE std_set_difference(_, _)
std_set_difference(r1, r2) ==
  IF r1 = <<>> THEN <<>>
  ELSE IF r2 = <<>> THEN r1
  ELSE IF Head(r1) < Head(r2)
         THEN <<Head(r1)>> \o std_set_difference(Tail(r1), r2)
  ELSE IF ~(Head(r2) < Head(r1))
         THEN std_set_difference(Tail(r1), Tail(r2))
  ELSE std_set_difference(r1, Tail(r2))

(***************************************************************************)
(* The mesh abstraction the mixin consumes.                                *)
(***************************************************************************)
\* MooseMesh::getBoundaryIDs: one id per name, the reserved name resolved to
\* the any-sentinel.
getBoundaryIDs(m, names) ==
  [i \in 1..Len(names) |->
     IF names[i] = AnyBoundaryName THEN ANY_BOUNDARY_ID ELSE m.names[names[i]]]

\* MooseMesh::meshBoundaryIds: the boundary ids the mesh knows.
meshBoundaryIds(m) == m.ids

VARIABLES
  parameters,            \* the InputParameters handed to the constructor
  mesh,                  \* the mesh reachable through '_mesh' / '_fe_problem'
  pc,                    \* "start", "ready" (constructed) or "error" (mooseError)
  _bnd_mesh,             \* "NULL" or "mesh"
  _bnd_dual_restrictable,
  _bnd_ids,
  _boundary_names,
  _boundary_restricted,
  _block_ids,
  error,                 \* the message mooseError was called with
  lastQuery              \* the last query asked and its answer

\* The property value container (MaterialProperty<T>, MaterialProperties).
VARIABLES
  slots,                 \* the heap of MaterialProperty<T> objects, by address
  arrays,                \* the heap of MooseArray storage (_data), by address
  props,                 \* a MaterialProperties collection: slot addresses
  stream,                \* the bytes of the binary stream store() writes to
  rpos,                  \* the read position of the stream load() reads from
  deletes,               \* how often delete was called on each slot address
  ub,                    \* the program has run into undefined behaviour
  copied,                \* history: <<dst, src>> shallow-copied, and only
                         \* element writes on either since
  lastOp                 \* the last container operation and what it returned

materialVars == <<slots, arrays, props, stream, rpos, deletes, ub, copied, lastOp>>

boundaryVars == <<parameters, mesh, pc, _bnd_mesh, _bnd_dual_restrictable, _bnd_ids,
                  _boundary_names, _boundary_restricted, _block_ids, error, lastQuery>>

vars == <<parameters, mesh, pc, _bnd_mesh, _bnd_dual_restrictable, _bnd_ids,
          _boundary_names, _boundary_restricted, _block_ids, error, lastQuery,
          materialVars>>

\* The fields of the object the const query methods may read.
object == <<_bnd_mesh, _bnd_dual_restrictable, _bnd_ids, _boundary_names,
            _boundary_restricted, _block_ids>>

NoError == [kind |-> "none", name |-> "", ids |-> <<>>]

NoQuery == [op |-> "none", arg |-> <<>>, type |-> "", result |-> FALSE]

Meshes == [ids : MeshIdSets, names : [ConcreteNames -> ResolvedIds]]

Parameters ==
  {p \in [name : ObjectNames,
          boundary_valid : BOOLEAN,
          boundary : SeqsUpTo(BoundaryNames, MaxNames),
          _dual_restrictable : BOOLEAN,
          _fe_problem : BOOLEAN,
          _mesh : BOOLEAN] :
     ~p.boundary_valid => p.boundary = <<>>}

SlotAddrs == 1..MaxSlots

ArrayAddrs == 1..MaxArrays

\* The null pointer.
NULL == 0

\* A MooseArray<T> as its default constructor leaves it.
EmptyMooseArray == [_data |-> NULL, _size |-> 0, _allocated_size |-> 0]

NoSlot == [state |-> "unallocated", type |-> "", _value |-> EmptyMooseArray]

NoArray == [state |-> "unallocated", elems |-> <<>>]

NoOp == [op |-> "none", slot |-> NULL, arg |-> NULL, result |-> NULL]

\* No property value container exists.
MaterialIdle ==
  /\ slots = [a \in SlotAddrs |-> NoSlot]
  /\ arrays = [a \in ArrayAddrs |-> NoArray]
  /\ props = <<>>
  /\ stream = <<>>
  /\ rpos = 0
  /\ deletes = [a \in SlotAddrs |-> 0]
  /\ ub = FALSE
  /\ copied = {}
  /\ lastOp = NoOp

Init ==
  /\ MaterialIdle
  /\ parameters \in Parameters
  /\ mesh \in Meshes
  /\ pc = "start"
  /\ _bnd_mesh = "NULL"
  /\ _bnd_dual_restrictable = FALSE
  /\ _bnd_ids = {}
  /\ _boundary_names = <<>>
  /\ _boundary_restricted = FALSE
  /\ _block_ids = {}
  /\ error = NoError
  /\ lastQuery = NoQuery

(***************************************************************************)
(* initializeBoundaryRestrictable, statement by statement.  mooseError     *)
(* does not return: the statements after it are not executed, and the      *)
(* fields keep the values they had when it was called.                     *)
(***************************************************************************)
\* Constructor initialisers and lines 67-69: '_mesh' if supplied, else the
\* mesh of '_fe_problem' if that was supplied, else NULL.
MeshPointer(p) ==
  LET bnd_feproblem == IF p._fe_problem THEN "fe_problem" ELSE "NULL"
      bnd_mesh == IF p._mesh THEN "mesh" ELSE "NULL"
  IN  IF bnd_feproblem # "NULL" /\ bnd_mesh = "NULL" THEN "mesh" ELSE bnd_mesh

\* StoreIds without the else: the resolved ids are stored beside the sentinel.
StoreIdsAlsoResolved(bnd, names, vec_ids) ==
  IF std_find(names, AnyBoundaryName)
    THEN bnd \cup {ANY_BOUNDARY_ID} \cup RangeToSet(vec_ids)
    ELSE bnd \cup RangeToSet(vec_ids)

\* Lines 84-88: store the any-sentinel if the reserved name was supplied,
\* the resolved ids otherwise.
StoreIds(bnd, names, vec_ids) ==
  IF std_find(names, AnyBoundaryName)
    THEN bnd \cup {ANY_BOUNDARY_ID}
    ELSE bnd \cup RangeToSet(vec_ids)

\* DualRestrictionError with the test for ANY_BLOCK_ID inverted.
DualRestrictionErrorInverted(dual, bnd, blocks) ==
  /\ ~dual /\ bnd # {} /\ blocks # {}
  /\ blocks # {} /\ ANY_BLOCK_ID \in blocks

\* Lines 92-93: the condition under which the dual-restriction error is raised.
DualRestrictionError(dual, bnd, blocks) ==
  /\ ~dual /\ bnd # {} /\ blocks # {}
  /\ blocks # {} /\ ANY_BLOCK_ID \notin blocks

\* StoreAnyIfEmpty marking the object restricted on both branches.
StoreAnyIfEmptyAlwaysRestricted(bnd, names, restricted) ==
  IF bnd = {}
    THEN [ids |-> bnd \cup {ANY_BOUNDARY_ID},
          names |-> <<AnyBoundaryName>>,
          restricted |-> TRUE]
    ELSE [ids |-> bnd, names |-> names, restricted |-> TRUE]

\* StoreAnyIfEmpty without the insertion of the sentinel.
StoreAnyIfEmptyNoInsert(bnd, names, restricted) ==
  IF bnd = {}
    THEN [ids |-> bnd, names |-> <<AnyBoundaryName>>, restricted |-> restricted]
    ELSE [ids |-> bnd, names |-> names, restricted |-> TRUE]

\* StoreAnyIfEmpty deriving the restricted flag from the set it stores.
StoreAnyIfEmptyFlagFromSet(bnd, names, restricted) ==
  IF bnd = {}
    THEN [ids |-> bnd \cup {ANY_BOUNDARY_ID},
          names |-> <<AnyBoundaryName>>,
          restricted |-> restricted]
    ELSE [ids |-> bnd, names |-> names,
          restricted |-> ANY_BOUNDARY_ID \notin bnd]

\* Lines 96-103: store ANY_BOUNDARY_ID if empty, otherwise mark restricted.
StoreAnyIfEmpty(bnd, names, restricted) ==
  IF bnd = {}
    THEN [ids |-> bnd \cup {ANY_BOUNDARY_ID},
          names |-> <<AnyBoundaryName>>,
          restricted |-> restricted]
    ELSE [ids |-> bnd, names |-> names, restricted |-> TRUE]

\* MissingIds with the two ranges of set_difference swapped.
MissingIdsSwapped(bnd, m) ==
  IF ANY_BOUNDARY_ID \notin bnd
    THEN std_set_difference(SetRange(meshBoundaryIds(m)), SetRange(bnd))
    ELSE <<>>

\* Lines 106-111: the ids of a concrete restriction that the mesh lacks.
MissingIds(bnd, m) ==
  IF ANY_BOUNDARY_ID \notin bnd
    THEN std_set_difference(SetRange(bnd), SetRange(meshBoundaryIds(m)))
    ELSE <<>>

\* initializeBoundaryRestrictable with the mesh check of lines 105-121 moved
\* before the dual-restriction check of lines 91-94.
initializeBoundaryRestrictableMeshCheckFirst(p, m, blocks) ==
  LET name == p.name
      bnd_mesh == MeshPointer(p)
      start == [pc |-> "error", bnd_mesh |-> bnd_mesh, ids |-> {},
                names |-> <<>>, restricted |-> FALSE, error |-> NoError]
  IN
  IF bnd_mesh = "NULL"
    THEN [start EXCEPT !.error = [kind |-> "no_mesh", name |-> "", ids |-> <<>>]]
  ELSE
  LET names == IF p.boundary_valid THEN p.boundary ELSE <<>>
      vec_ids == getBoundaryIDs(m, names)
      bnd == IF p.boundary_valid THEN StoreIds({}, names, vec_ids) ELSE {}
      read == [start EXCEPT !.ids = bnd, !.names = names]
      diff == IF bnd = {} THEN <<>> ELSE MissingIds(bnd, m)
  IN
  IF diff # <<>>
    THEN [read EXCEPT !.error = [kind |-> "missing_ids", name |-> name,
                                 ids |-> diff]]
  ELSE
  IF DualRestrictionError(p._dual_restrictable, bnd, blocks)
    THEN [read EXCEPT !.error = [kind |-> "dual_restriction", name |-> name,
                                 ids |-> <<>>]]
  ELSE
  LET stored == StoreAnyIfEmpty(bnd, names, FALSE)
  IN  [read EXCEPT !.ids = stored.ids, !.names = stored.names,
                   !.restricted = stored.restricted, !.pc = "ready"]

\* Lines 61-122: the fields and the error at the end of the call, from the
\* fields set by the constructor's initialisers.
initializeBoundaryRestrictable(p, m, blocks) ==
  LET name == p.name
      bnd_mesh == MeshPointer(p)
      start == [pc |-> "error", bnd_mesh |-> bnd_mesh, ids |-> {},
                names |-> <<>>, restricted |-> FALSE, error |-> NoError]
  IN
  IF bnd_mesh = "NULL"
    THEN [start EXCEPT !.error = [kind |-> "no_mesh", name |-> "", ids |-> <<>>]]
  ELSE
  LET names == IF p.boundary_valid THEN p.boundary ELSE <<>>
      vec_ids == getBoundaryIDs(m, names)
      bnd == IF p.boundary_valid THEN StoreIds({}, names, vec_ids) ELSE {}
      read == [start EXCEPT !.ids = bnd, !.names = names]
  IN
  IF DualRestrictionError(p._dual_restrictable, bnd, blocks)
    THEN [read EXCEPT !.error = [kind |-> "dual_restriction", name |-> name,
                                 ids |-> <<>>]]
  ELSE
  LET stored == StoreAnyIfEmpty(bnd, names, FALSE)
      kept == [read EXCEPT !.ids = stored.ids, !.names = stored.names,
                           !.restricted = stored.restricted]
      diff == MissingIds(stored.ids, m)
  IN
  IF diff # <<>>
    THEN [kept EXCEPT !.error = [kind |-> "missing_ids", name |-> name,
                                 ids |-> diff]]
    ELSE [kept EXCEPT !.pc = "ready"]

\* The constructor body: the initialisers, then initializeBoundaryRestrictable.
Construct(blocks) ==
  /\ pc = "start"
  /\ LET r == initializeBoundaryRestrictable(parameters, mesh, blocks)
     IN  /\ pc' = r.pc
         /\ _bnd_mesh' = r.bnd_mesh
         /\ _bnd_dual_restrictable' = parameters._dual_restrictable
         /\ _bnd_ids' = r.ids
         /\ _boundary_names' = r.names
         /\ _boundary_restricted' = r.restricted
         /\ _block_ids' = blocks
         /\ error' = r.error
  /\ UNCHANGED <<parameters, mesh, lastQuery, materialVars>>

\* Lines 36-46: the standard constructor, _block_ids(_empty_block_ids).
StandardConstructor == Construct({})

\* Lines 48-59: the dual restricted constructor, _block_ids(block_ids).
DualRestrictedConstructor == \E block_ids \in SUBSET BlockIds : Construct(block_ids)

(***************************************************************************)
(* The const query methods, as functions of the fields they read.          *)
(***************************************************************************)
\* Lines 128-132.
boundaryIDs(bnd) == bnd

\* Lines 134-138.
boundaryNames(names) == names

\* Lines 140-144.
numBoundaryIDs(bnd) == Cardinality(bnd)

\* Lines 162-169: hasBoundary(BoundaryID).
hasBoundaryID(bnd, id) ==
  IF bnd = {} \/ ANY_BOUNDARY_ID \in bnd
    THEN TRUE
    ELSE id \in bnd

\* The ANY loop returning the first test instead of going on.
hasBoundaryAnyLoopFirstOnly(bnd, it) ==
  IF it = <<>> THEN FALSE
  ELSE hasBoundaryID(bnd, Head(it))

\* Lines 196-206: the loop of the ANY branch over the supplied ids.
RECURSIVE hasBoundaryAnyLoop(_, _)
hasBoundaryAnyLoop(bnd, it) ==
  IF it = <<>> THEN FALSE
  ELSE IF hasBoundaryID(bnd, Head(it)) THEN TRUE
  ELSE hasBoundaryAnyLoop(bnd, Tail(it))

\* hasBoundary(set) with the two ranges of std::includes swapped.
hasBoundarySetSwapped(bnd, ids, type) ==
  IF ids = {} \/ ANY_BOUNDARY_ID \in ids
    THEN TRUE
  ELSE IF type = ALL
    THEN IF ANY_BOUNDARY_ID \in bnd
           THEN TRUE
           ELSE std_includes(SetRange(ids), SetRange(bnd))
  ELSE hasBoundaryAnyLoop(bnd, SetRange(ids))

\* Lines 178-208: hasBoundary(std::set<BoundaryID>, TEST_TYPE).
hasBoundarySet(bnd, ids, type) ==
  IF ids = {} \/ ANY_BOUNDARY_ID \in ids
    THEN TRUE
  ELSE IF type = ALL
    THEN IF ANY_BOUNDARY_ID \in bnd
           THEN TRUE
           ELSE std_includes(SetRange(bnd), SetRange(ids))
  ELSE hasBoundaryAnyLoop(bnd, SetRange(ids))

\* Lines 171-176: hasBoundary(std::vector<BoundaryID>, TEST_TYPE).
hasBoundaryVector(bnd, ids, type) ==
  LET ids_set == RangeToSet(ids)
  IN  hasBoundarySet(bnd, ids_set, type)

\* Lines 146-154: hasBoundary(BoundaryName); the vector overload is called
\* with its default test type, ALL.
hasBoundaryName(bnd, m, name) ==
  LET names == <<name>>
  IN  hasBoundaryVector(bnd, getBoundaryIDs(m, names), ALL)

\* Lines 156-160: hasBoundary(std::vector<BoundaryName>).
hasBoundaryNames(bnd, m, names) ==
  hasBoundaryVector(bnd, getBoundaryIDs(m, names), ALL)

\* isBoundarySubset(set) with the two ranges of std::includes swapped.
isBoundarySubsetSetSwapped(bnd, m, ids) ==
  IF ids = {} \/ ANY_BOUNDARY_ID \in ids
    THEN TRUE
  ELSE IF ANY_BOUNDARY_ID \in bnd
    THEN std_includes(SetRange(meshBoundaryIds(m)), SetRange(ids))
  ELSE std_includes(SetRange(bnd), SetRange(ids))

\* Lines 210-221: isBoundarySubset(std::set<BoundaryID>).
isBoundarySubsetSet(bnd, m, ids) ==
  IF ids = {} \/ ANY_BOUNDARY_ID \in ids
    THEN TRUE
  ELSE IF ANY_BOUNDARY_ID \in bnd
    THEN std_includes(SetRange(ids), SetRange(meshBoundaryIds(m)))
  ELSE std_includes(SetRange(ids), SetRange(bnd))

\* Lines 223-228: isBoundarySubset(std::vector<BoundaryID>).
isBoundarySubsetVector(bnd, m, ids) ==
  LET ids_set == RangeToSet(ids)
  IN  isBoundarySubsetSet(bnd, m, ids_set)

\* The answer of query q asked of an object with the given fields.
Answer(q, bnd, names, m) ==
  CASE q.op = "boundaryIDs" -> boundaryIDs(bnd)
    [] q.op = "boundaryNames" -> boundaryNames(names)
    [] q.op = "numBoundaryIDs" -> numBoundaryIDs(bnd)
    [] q.op = "hasBoundary(BoundaryID)" -> hasBoundaryID(bnd, q.arg)
    [] q.op = "hasBoundary(BoundaryName)" -> hasBoundaryName(bnd, m, q.arg)
    [] q.op = "hasBoundary(vector<BoundaryName>)" -> hasBoundaryNames(bnd, m, q.arg)
    [] q.op = "hasBoundary(set<BoundaryID>)" -> hasBoundarySet(bnd, q.arg, q.type)
    [] q.op = "hasBoundary(vector<BoundaryID>)" -> hasBoundaryVector(bnd, q.arg, q.type)
    [] q.op = "isBoundarySubset(set<BoundaryID>)" -> isBoundarySubsetSet(bnd, m, q.arg)
    [] q.op = "isBoundarySubset(vector<BoundaryID>)" -> isBoundarySubsetVector(bnd, m, q.arg)

(***************************************************************************)
(* The queries a caller may ask of a constructed object.                   *)
(***************************************************************************)
\* A query that stores the any-sentinel in the restriction set as it answers.
StoringMethod ==
  /\ _bnd_ids' = _bnd_ids \cup {ANY_BOUNDARY_ID}
  /\ UNCHANGED <<parameters, mesh, pc, _bnd_mesh, _bnd_dual_restrictable,
                 _boundary_names, _boundary_restricted, _block_ids, error,
                 materialVars>>

\* What a const method leaves alone: every field of the object, and the
\* parameters and mesh it was built from.
ConstMethod ==
  UNCHANGED <<parameters, mesh, pc, _bnd_mesh, _bnd_dual_restrictable, _bnd_ids,
              _boundary_names, _boundary_restricted, _block_ids, error,
              materialVars>>

\* A caller asks q of the constructed object and holds the answer.
Ask(op, arg, type) ==
  /\ pc = "ready"
  /\ lastQuery = NoQuery
  /\ LET q == [op |-> op, arg |-> arg, type |-> type, result |-> FALSE]
     IN  lastQuery' = [q EXCEPT !.result = Answer(q, _bnd_ids, _boundary_names, mesh)]
  /\ ConstMethod

CallBoundaryIDs == Ask("boundaryIDs", <<>>, "")

CallBoundaryNames == Ask("boundaryNames", <<>>, "")

CallNumBoundaryIDs == Ask("numBoundaryIDs", <<>>, "")

CallHasBoundaryID == \E id \in QueryIds : Ask("hasBoundary(BoundaryID)", id, "")

CallHasBoundaryName ==
  \E name \in BoundaryNames : Ask("hasBoundary(BoundaryName)", name, "")

CallHasBoundaryNames ==
  \E names \in SeqsUpTo(BoundaryNames, MaxQuery) :
    Ask("hasBoundary(vector<BoundaryName>)", names, "")

CallHasBoundarySet ==
  \E ids \in SubsetsUpTo(QueryIds, MaxQuery), type \in {ALL, ANY} :
    Ask("hasBoundary(set<BoundaryID>)", ids, type)

CallHasBoundaryVector ==
  \E ids \in SeqsUpTo(QueryIds, MaxQuery), type \in {ALL, ANY} :
    Ask("hasBoundary(vector<BoundaryID>)", ids, type)

CallIsBoundarySubsetSet ==
  \E ids \in SubsetsUpTo(QueryIds, MaxQuery) :
    Ask("isBoundarySubset(set<BoundaryID>)", ids, "")

CallIsBoundarySubsetVector ==
  \E ids \in SeqsUpTo(QueryIds, MaxQuery) :
    Ask("isBoundarySubset(vector<BoundaryID>)", ids, "")

\* The caller is done with the answer it held and may ask again.
DropAnswer ==
  /\ pc = "ready"
  /\ lastQuery # NoQuery
  /\ lastQuery' = NoQuery
  /\ UNCHANGED <<parameters, mesh, pc, _bnd_mesh, _bnd_dual_restrictable, _bnd_ids,
                 _boundary_names, _boundary_restricted, _block_ids, error,
                 materialVars>>

\* Construction, over every input of the model.
Next ==
  \/ StandardConstructor
  \/ DualRestrictedConstructor

Spec == Init /\ [][Next]_vars

\* Construction of an object that reaches its mesh through '_fe_problem',
\* and the queries asked of it once it is constructed.
QueryInit ==
  /\ Init
  /\ parameters._fe_problem /\ ~parameters._mesh

QueryNext ==
  \/ StandardConstructor
  \/ DualRestrictedConstructor
  \/ DropAnswer
  \/ CallBoundaryIDs
  \/ CallBoundaryNames
  \/ CallNumBoundaryIDs
  \/ CallHasBoundaryID
  \/ CallHasBoundaryName
  \/ CallHasBoundaryNames
  \/ CallHasBoundarySet
  \/ CallHasBoundaryVector
  \/ CallIsBoundarySubsetSet
  \/ CallIsBoundarySubsetVector

QuerySpec == QueryInit /\ [][QueryNext]_vars

(***************************************************************************)
(* The property value container.  A slot is a MaterialProperty<T> on the   *)
(* heap; its _value is a MooseArray<T>: a pointer _data to storage that    *)
(* may be shared, a size and an allocated size.                            *)
(***************************************************************************)
\* typeid(T).name() of the two kinds of element type: a scalar and a nested
\* sequence.
ScalarType == "Real"

VectorType == "std::vector<Real>"

Types == {ScalarType, VectorType}

\* Scalar element values; 258 takes more than one byte.
Values == {1, 258}

\* Nested-sequence element values; <<>> is an unsized inner sequence.
InnerValues == {<<>>, <<1>>}

ElementValues(T) == IF T = ScalarType THEN Values ELSE InnerValues

\* operator new: the lowest address never handed out.
FreshSlot(sl) == CHOOSE a \in SlotAddrs :
                   /\ sl[a].state = "unallocated"
                   /\ \A b \in SlotAddrs : sl[b].state = "unallocated" => a <= b

FreshArray(ar) == CHOOSE a \in ArrayAddrs :
                    /\ ar[a].state = "unallocated"
                    /\ \A b \in ArrayAddrs : ar[b].state = "unallocated" => a <= b

\* The storage a MooseArray points to can be read and written.
Usable(v, ar) == v._data # NULL /\ ar[v._data].state = "live"

\* MooseArray<T>::operator[]: element i (from 0) of the storage pointed to.
MooseArray_at(v, ar, i) == ar[v._data].elems[i + 1]

\* MooseArray<T>::resize: within the allocated size only the size changes;
\* beyond it new storage is allocated, the elements in use are copied and
\* the old storage is deleted.  fill gives the elements new T[n] leaves in
\* the new storage.
MooseArray_resize(v, ar, n, fill) ==
  IF n <= v._allocated_size
    THEN [value |-> [v EXCEPT !._size = n], arrays |-> ar]
    ELSE LET a == FreshArray(ar)
             new == [i \in 1..n |->
                       IF i <= v._size THEN ar[v._data].elems[i] ELSE fill[i]]
             freed == IF v._data # NULL
                        THEN [ar EXCEPT ![v._data] =
                                [state |-> "released", elems |-> <<>>]]
                        ELSE ar
         IN  [value |-> [_data |-> a, _size |-> n, _allocated_size |-> n],
              arrays |-> [freed EXCEPT ![a] = [state |-> "live", elems |-> new]]]

\* MooseArray<T>::shallowCopy: the pointer and the sizes are copied, the
\* storage is not.
MooseArray_shallowCopy(v, rhs) ==
  [v EXCEPT !._data = rhs._data, !._size = rhs._size,
            !._allocated_size = rhs._allocated_size]

\* materialPropertyStore<T>: stream.write of the ElemBytes bytes of a scalar,
\* low byte first.
RECURSIVE Power(_, _)
Power(b, k) == IF k = 0 THEN 1 ELSE b * Power(b, k - 1)

materialPropertyStore(v) ==
  [k \in 1..ElemBytes |-> (v \div Power(256, k - 1)) % 256]

\* materialPropertyLoad<T>: stream.read of the ElemBytes bytes of a scalar.
RECURSIVE BytesValue(_)
BytesValue(bytes) ==
  IF bytes = <<>> THEN 0 ELSE Head(bytes) + 256 * BytesValue(Tail(bytes))

materialPropertyLoad(str, pos) ==
  BytesValue(SubSeq(str, pos + 1, pos + ElemBytes))

\* Lines 402-407: MaterialProperty<T>::type.
MaterialProperty_type(sl, s) == sl[s].type

\* Line 352: MaterialProperty<T>::size.
MaterialProperty_size(sl, s) == sl[s]._value._size

\* Lines 350, 357: MaterialProperty<T>::operator[].
MaterialProperty_at(sl, ar, s, i) == MooseArray_at(sl[s]._value, ar, i)

\* Lines 416-421: MaterialProperty<T>::resize.
MaterialProperty_resize(sl, ar, s, n, fill) ==
  LET r == MooseArray_resize(sl[s]._value, ar, n, fill)
  IN  [slots |-> [sl EXCEPT ![s]._value = r.value], arrays |-> r.arrays]

\* Lines 476-483: the scalar _init_helper.
init_helper_scalar(sl, ar, size, prop, fill) ==
  LET copy == FreshSlot(sl)
      made == [sl EXCEPT ![copy] = [state |-> "live", type |-> ScalarType,
                                   _value |-> EmptyMooseArray]]
      r == MaterialProperty_resize(made, ar, copy, size, fill)
  IN  [slots |-> r.slots, arrays |-> r.arrays, result |-> copy]

\* Lines 485-499: the vector _init_helper; new T[n] default-constructs the
\* inner sequences, which are left for the caller to size.
init_helper_vector(sl, ar, size, prop) ==
  LET copy == FreshSlot(sl)
      made == [sl EXCEPT ![copy] = [state |-> "live", type |-> VectorType,
                                   _value |-> EmptyMooseArray]]
      r == MaterialProperty_resize(made, ar, copy, size, [i \in 1..size |-> <<>>])
  IN  [slots |-> r.slots, arrays |-> r.arrays, result |-> copy]

\* init without the overload for nested sequences.
MaterialProperty_initScalarOnly(sl, ar, s, size, fill) ==
  init_helper_scalar(sl, ar, size, s, fill)

\* Lines 409-414: MaterialProperty<T>::init, the overload chosen by T.
MaterialProperty_init(sl, ar, s, size, fill) ==
  IF sl[s].type = VectorType
    THEN init_helper_vector(sl, ar, size, s)
    ELSE init_helper_scalar(sl, ar, size, s, fill)

\* shallowCopy taking the sizes of rhs and keeping its own storage.
MaterialProperty_shallowCopySizesOnly(sl, s, rhs) ==
  [sl EXCEPT ![s]._value._size = sl[rhs]._value._size,
             ![s]._value._allocated_size = sl[rhs]._value._allocated_size]

\* Lines 423-429: MaterialProperty<T>::shallowCopy.
MaterialProperty_shallowCopy(sl, s, rhs) ==
  [sl EXCEPT ![s]._value = MooseArray_shallowCopy(sl[s]._value, sl[rhs]._value)]

\* store walking the elements from the last to the first.
RECURSIVE MaterialProperty_storeReversed(_, _, _, _, _)
MaterialProperty_storeReversed(sl, ar, s, str, i) ==
  IF ~(i < MaterialProperty_size(sl, s)) THEN str
  ELSE MaterialProperty_storeReversed(sl, ar, s,
         str \o materialPropertyStore(
                  MaterialProperty_at(sl, ar, s, MaterialProperty_size(sl, s) - 1 - i)),
         i + 1)

\* Lines 431-437: MaterialProperty<T>::store, the loop from element i on.
RECURSIVE MaterialProperty_store(_, _, _, _, _)
MaterialProperty_store(sl, ar, s, str, i) ==
  IF ~(i < MaterialProperty_size(sl, s)) THEN str
  ELSE MaterialProperty_store(sl, ar, s,
         str \o materialPropertyStore(MaterialProperty_at(sl, ar, s, i)), i + 1)

\* Lines 439-445: MaterialProperty<T>::load, the loop from element i on,
\* reading at pos.
RECURSIVE MaterialProperty_load(_, _, _, _, _, _)
MaterialProperty_load(sl, ar, s, str, pos, i) ==
  IF ~(i < MaterialProperty_size(sl, s)) THEN [arrays |-> ar, rpos |-> pos]
  ELSE MaterialProperty_load(sl,
         [ar EXCEPT ![sl[s]._value._data].elems[i + 1] = materialPropertyLoad(str, pos)],
         s, str, pos + ElemBytes, i + 1)

\* Lines 317-320 and delete: ~MaterialProperty releases the storage
\* (MooseArray<T>::release deletes _data unless it is NULL) and the slot is
\* deallocated.  Deleting a deleted slot, or storage already deleted, is
\* undefined.
DeleteSlot(h, k) ==
  LET v == h.slots[k]._value
      twice == \/ h.slots[k].state # "live"
               \/ v._data # NULL /\ h.arrays[v._data].state # "live"
  IN  [slots |-> [h.slots EXCEPT ![k] = [state |-> "deleted", type |-> @.type,
                                         _value |-> EmptyMooseArray]],
       arrays |-> IF h.slots[k].state = "live" /\ v._data # NULL
                    THEN [h.arrays EXCEPT ![v._data] =
                            [state |-> "released", elems |-> <<>>]]
                    ELSE h.arrays,
       deletes |-> [h.deletes EXCEPT ![k] = @ + 1],
       ub |-> h.ub \/ twice,
       list |-> h.list]

\* destroy stopping after the first entry.
RECURSIVE MaterialProperties_destroyFirstOnly(_, _)
MaterialProperties_destroyFirstOnly(h, k) ==
  IF k > Len(h.list) \/ k > 1 THEN h
  ELSE MaterialProperties_destroyFirstOnly(DeleteSlot(h, h.list[k]), k + 1)

\* Lines 466-473: MaterialProperties::destroy, the loop from entry k on.
RECURSIVE MaterialProperties_destroy(_, _)
MaterialProperties_destroy(h, k) ==
  IF k > Len(h.list) THEN h
  ELSE MaterialProperties_destroy(DeleteSlot(h, h.list[k]), k + 1)

(***************************************************************************)
(* Operations on the property value container.  The owner declares slots   *)
(* in its list, sizes and fills them, clones them with init, aliases them  *)
(* with shallowCopy, saves and restores them, and destroys the list.       *)
(***************************************************************************)
\* Calls of destroy the owner may make.
MaxDestroy == 2

\* A slot the caller may still use.
LiveSlots == {s \in SlotAddrs : slots[s].state = "live"}

\* The storage of slot s can be accessed: it is sized 0, or points to
\* storage that has not been deleted.
Accessible(s) ==
  \/ slots[s]._value._data = NULL /\ slots[s]._value._allocated_size = 0
  \/ Usable(slots[s]._value, arrays)

\* The elements of slot s in index order.
Elements(sl, ar, s) ==
  [i \in 1..MaterialProperty_size(sl, s) |-> MaterialProperty_at(sl, ar, s, i - 1)]

\* new T[n] is needed and there is room for it.
CanGrow(s, n) ==
  n > slots[s]._value._allocated_size => \E a \in ArrayAddrs : arrays[a].state = "unallocated"

\* The elements new T[n] leaves behind index from: indeterminate scalars,
\* default-constructed inner sequences.
Fills(T, from, n) ==
  IF T = ScalarType THEN [(from + 1)..n -> Values] ELSE {[i \in (from + 1)..n |-> <<>>]}

\* The aliasing pairs that survive when slots in the set gone stop sharing.
Forget(gone) == {pr \in copied : pr[1] \notin gone /\ pr[2] \notin gone}

CallInit(s, n, keep) ==
  /\ ~ub /\ s \in LiveSlots
  /\ \E c \in SlotAddrs : slots[c].state = "unallocated"
  /\ n > 0 => \E a \in ArrayAddrs : arrays[a].state = "unallocated"
  /\ \E fill \in Fills(slots[s].type, 0, n) :
       LET r == MaterialProperty_init(slots, arrays, s, n, fill)
       IN  /\ slots' = r.slots
           /\ arrays' = r.arrays
           /\ props' = IF keep THEN Append(props, r.result) ELSE props
           /\ lastOp' = [op |-> "init", slot |-> s, arg |-> n, result |-> r.result]
  /\ UNCHANGED <<stream, rpos, deletes, ub, copied, boundaryVars>>

InitSlot == \E s \in SlotAddrs, n \in 0..MaxSize, keep \in BOOLEAN : CallInit(s, n, keep)

CallResize(s, n) ==
  /\ ~ub /\ s \in LiveSlots /\ Accessible(s) /\ CanGrow(s, n)
  /\ n # slots[s]._value._size
  /\ \E fill \in Fills(slots[s].type, slots[s]._value._size, n) :
       LET r == MaterialProperty_resize(slots, arrays, s, n, fill)
       IN  /\ slots' = r.slots
           /\ arrays' = r.arrays
  /\ copied' = Forget({s})
  /\ lastOp' = [op |-> "resize", slot |-> NULL, arg |-> NULL, result |-> NULL]
  /\ UNCHANGED <<props, stream, rpos, deletes, ub, boundaryVars>>

ResizeSlot == \E s \in SlotAddrs, n \in 0..MaxSize : CallResize(s, n)

\* Lines 350: prop[i] = v through the writable operator[].
CallWrite(s, i, v) ==
  /\ ~ub /\ s \in LiveSlots /\ Accessible(s)
  /\ i < slots[s]._value._size
  /\ v \in ElementValues(slots[s].type)
  /\ arrays' = [arrays EXCEPT ![slots[s]._value._data].elems[i + 1] = v]
  /\ lastOp' = [op |-> "write", slot |-> s, arg |-> NULL, result |-> NULL]
  /\ UNCHANGED <<slots, props, stream, rpos, deletes, ub, copied, boundaryVars>>

WriteElement ==
  \E s \in SlotAddrs, i \in 0..(MaxSize - 1) :
    \E v \in ElementValues(slots[s].type) : CallWrite(s, i, v)

\* Element access through a slot whose storage was deleted through an
\* alias: undefined.
DanglingAccess ==
  /\ ~ub
  /\ \E s \in LiveSlots :
       /\ ~Accessible(s)
       /\ lastOp' = [op |-> "dangling", slot |-> NULL, arg |-> NULL, result |-> NULL]
  /\ ub' = TRUE
  /\ UNCHANGED <<slots, arrays, props, stream, rpos, deletes, copied, boundaryVars>>

\* The caller guards the cast: rhs is a slot of the same type.
CallShallowCopy(s, rhs) ==
  /\ ~ub /\ s \in LiveSlots /\ rhs \in LiveSlots
  /\ slots[s].type = slots[rhs].type
  /\ slots' = MaterialProperty_shallowCopy(slots, s, rhs)
  /\ copied' = IF s = rhs THEN copied ELSE Forget({s}) \cup {<<s, rhs>>}
  /\ lastOp' = [op |-> "shallowCopy", slot |-> NULL, arg |-> NULL, result |-> NULL]
  /\ UNCHANGED <<arrays, props, stream, rpos, deletes, ub, boundaryVars>>

ShallowCopySlot == \E s, rhs \in SlotAddrs : CallShallowCopy(s, rhs)

\* store of a scalar slot; the stream has room for MaxStream elements.
CallStore(s) ==
  /\ ~ub /\ s \in LiveSlots /\ Accessible(s)
  /\ slots[s].type = ScalarType
  /\ MaterialProperty_size(slots, s) > 0
  /\ Len(stream) + MaterialProperty_size(slots, s) * ElemBytes <= MaxStream * ElemBytes
  /\ stream' = MaterialProperty_store(slots, arrays, s, stream, 0)
  /\ lastOp' = [op |-> "store", slot |-> s, arg |-> Len(stream), result |-> NULL]
  /\ UNCHANGED <<slots, arrays, props, rpos, deletes, ub, copied, boundaryVars>>

StoreSlot == \E s \in SlotAddrs : CallStore(s)

\* load of a scalar slot from the read position; the stream holds the
\* elements asked for.  The result recorded is the slot whose store, the
\* call before, wrote the stream from that position.
CallLoad(s) ==
  /\ ~ub /\ s \in LiveSlots /\ Accessible(s)
  /\ slots[s].type = ScalarType
  /\ MaterialProperty_size(slots, s) > 0
  /\ rpos + MaterialProperty_size(slots, s) * ElemBytes <= Len(stream)
  /\ LET r == MaterialProperty_load(slots, arrays, s, stream, rpos, 0)
     IN  /\ arrays' = r.arrays
         /\ rpos' = r.rpos
  /\ lastOp' = [op |-> "load", slot |-> s, arg |-> rpos,
                result |-> IF lastOp.op = "store" /\ lastOp.arg = rpos
                             THEN lastOp.slot ELSE NULL]
  /\ UNCHANGED <<slots, props, stream, deletes, ub, copied, boundaryVars>>

LoadSlot == \E s \in SlotAddrs : CallLoad(s)

\* The number of destroy calls made so far.
Destroyed == IF lastOp.op = "destroy" THEN lastOp.arg ELSE 0

CallDestroy ==
  /\ ~ub /\ Destroyed < MaxDestroy
  /\ LET r == MaterialProperties_destroy(
                [slots |-> slots, arrays |-> arrays, deletes |-> deletes,
                 ub |-> ub, list |-> props], 1)
     IN  /\ slots' = r.slots
         /\ arrays' = r.arrays
         /\ deletes' = r.deletes
         /\ ub' = r.ub
         /\ props' = r.list
  /\ copied' = {}
  /\ lastOp' = [op |-> "destroy", slot |-> NULL, arg |-> Destroyed + 1, result |-> NULL]
  /\ UNCHANGED <<stream, rpos, boundaryVars>>

\* The boundary restriction is not under construction while the container
\* is exercised.
BoundaryIdle ==
  /\ parameters = CHOOSE p \in Parameters : TRUE
  /\ mesh = CHOOSE m \in Meshes : TRUE
  /\ pc = "start"
  /\ _bnd_mesh = "NULL"
  /\ _bnd_dual_restrictable = FALSE
  /\ _bnd_ids = {}
  /\ _boundary_names = <<>>
  /\ _boundary_restricted = FALSE
  /\ _block_ids = {}
  /\ error = NoError
  /\ lastQuery = NoQuery

\* The owner has declared two slots of element types t1 and t2, not yet
\* sized.
Declared(t1, t2) ==
  /\ slots = [a \in SlotAddrs |->
                IF a = 1 THEN [state |-> "live", type |-> t1, _value |-> EmptyMooseArray]
                ELSE IF a = 2 THEN [state |-> "live", type |-> t2, _value |-> EmptyMooseArray]
                ELSE NoSlot]
  /\ arrays = [a \in ArrayAddrs |-> NoArray]
  /\ props = <<1, 2>>
  /\ stream = <<>>
  /\ rpos = 0
  /\ deletes = [a \in SlotAddrs |-> 0]
  /\ ub = FALSE
  /\ copied = {}
  /\ lastOp = NoOp

\* Ownership and aliasing: a scalar slot and a slot of either kind are
\* sized, written, cloned, aliased and destroyed.
MaterialInit == BoundaryIdle /\ \E t2 \in Types : Declared(ScalarType, t2)

MaterialNext ==
  \/ InitSlot
  \/ ResizeSlot
  \/ WriteElement
  \/ DanglingAccess
  \/ ShallowCopySlot
  \/ CallDestroy

MaterialSpec == MaterialInit /\ [][MaterialNext]_vars

\* Persistence: two scalar slots are sized, written, saved and restored.
PersistInit == BoundaryIdle /\ Declared(ScalarType, ScalarType)

PersistNext ==
  \/ ResizeSlot
  \/ WriteElement
  \/ StoreSlot
  \/ LoadSlot

PersistSpec == PersistInit /\ [][PersistNext]_vars

(***************************************************************************)
(* Properties of the construction.                                         *)
(***************************************************************************)
\* initializeBoundaryRestrictable has run (to its end or to a mooseError)
\* with a mesh to resolve names against.
Initialized == pc # "start" /\ _bnd_mesh # "NULL"

\* The restriction set holds explicit ids only.
Concrete(bnd) == bnd # {} /\ ANY_BOUNDARY_ID \notin bnd

\* The block set restricts the object to explicit blocks.
BlockRestricted(blocks) == blocks # {} /\ ANY_BLOCK_ID \notin blocks

\* The 'boundary' input names no boundary: not supplied, or an empty list.
EmptyBoundaryInput == ~parameters.boundary_valid \/ parameters.boundary = <<>>

\* The ids of the restriction set that the mesh does not know.
Missing == _bnd_ids \ mesh.ids

\* C1: whenever the boundary id set is non-empty and concrete, the block id
\* set is non-empty without the any-block sentinel and _dual_restrictable is
\* false, initialization fails with the dual-restriction error, which names
\* the object.
C1_DualRestrictionFails ==
  (/\ Initialized
   /\ ~parameters._dual_restrictable
   /\ Concrete(_bnd_ids)
   /\ BlockRestricted(_block_ids))
  => (/\ pc = "error"
      /\ error = [kind |-> "dual_restriction", name |-> parameters.name,
                  ids |-> <<>>])

\* C1 witness: a concrete boundary set {2,4} met a concrete block set {1}
\* and the dual-restriction error was raised.
C1_Witness ==
  /\ pc = "error"
  /\ error.kind = "dual_restriction"
  /\ _bnd_ids = {2, 4}
  /\ _block_ids = {1}
  /\ ~parameters._dual_restrictable

\* C2 as stated: whenever a concrete boundary id set holds an id the mesh
\* does not know, initialization fails and the ids listed in the error are
\* exactly the restriction set minus the ids known to the mesh.
C2_AsStated ==
  (Initialized /\ Concrete(_bnd_ids) /\ Missing # {})
  => (pc = "error" /\ RangeToSet(error.ids) = Missing)

\* C2 amended: whenever a concrete boundary id set holds an id the mesh does
\* not know, initialization fails; if the dual-restriction condition holds
\* the error is the dual-restriction error, which lists no ids, and
\* otherwise it is the missing-id error, which names the object and lists
\* exactly the restriction set minus the ids known to the mesh, each once.
C2_MissingIdsListed ==
  (Initialized /\ Concrete(_bnd_ids) /\ Missing # {})
  => /\ pc = "error"
     /\ IF ~parameters._dual_restrictable /\ BlockRestricted(_block_ids)
          THEN error.kind = "dual_restriction" /\ error.ids = <<>>
          ELSE /\ error.kind = "missing_ids"
               /\ error.name = parameters.name
               /\ RangeToSet(error.ids) = Missing
               /\ Len(error.ids) = Cardinality(Missing)

\* C2 witness: of the restriction set {2,4} the mesh knows 2 only, and the
\* missing-id error lists 4 alone.
C2_Witness ==
  /\ pc = "error"
  /\ _bnd_ids = {2, 4}
  /\ mesh.ids = {2}
  /\ error.kind = "missing_ids"
  /\ error.ids = <<4>>

\* C3: whenever the boundary-name list contains the reserved name
\* "ANY_BOUNDARY_ID", the restriction set is exactly {ANY_BOUNDARY_ID},
\* whatever the other names are and whatever ids they resolve to.
C3_ReservedNameGivesAny ==
  (/\ Initialized
   /\ parameters.boundary_valid
   /\ \E i \in 1..Len(parameters.boundary) : parameters.boundary[i] = AnyBoundaryName)
  => _bnd_ids = {ANY_BOUNDARY_ID}

\* C3 witness: the list names "left", resolved to 2, before the reserved
\* name, and the object is constructed with the sentinel alone.
C3_Witness ==
  /\ pc = "ready"
  /\ parameters.boundary = <<"left", AnyBoundaryName>>
  /\ mesh.names["left"] = 2
  /\ 2 \in mesh.ids
  /\ _bnd_ids = {ANY_BOUNDARY_ID}

\* C4: whenever the boundary-name input is empty (not supplied, or an empty
\* list), initialization completes with the restriction set
\* {ANY_BOUNDARY_ID}, the name list <<"ANY_BOUNDARY_ID">> and
\* _boundary_restricted false.
C4_EmptyInputGivesAny ==
  (Initialized /\ EmptyBoundaryInput)
  => (/\ pc = "ready"
      /\ _bnd_ids = {ANY_BOUNDARY_ID}
      /\ _boundary_names = <<AnyBoundaryName>>
      /\ ~_boundary_restricted)

\* C4 witness: 'boundary' was supplied as an empty list to an object that
\* is restricted to block 1, and the object is constructed.
C4_Witness ==
  /\ pc = "ready"
  /\ parameters.boundary_valid
  /\ parameters.boundary = <<>>
  /\ _block_ids = {1}
  /\ _bnd_ids = {ANY_BOUNDARY_ID}

\* C5: after every initialization that completes without error the boundary
\* id set is non-empty: it is the set of the ids the names resolve to, or it
\* is the any-sentinel alone.
C5_NeverEmpty ==
  pc = "ready"
  => (/\ numBoundaryIDs(_bnd_ids) >= 1
      /\ \/ _bnd_ids = {ANY_BOUNDARY_ID}
         \/ _bnd_ids = {mesh.names[parameters.boundary[i]] :
                          i \in 1..Len(parameters.boundary)})

\* C5 witness: no 'boundary' was supplied, nothing was resolved, and the
\* constructed object holds one id.
C5_Witness ==
  /\ pc = "ready"
  /\ ~parameters.boundary_valid
  /\ numBoundaryIDs(_bnd_ids) = 1

(***************************************************************************)
(* Properties of the queries.                                              *)
(***************************************************************************)
\* The ids a held hasBoundary / isBoundarySubset query asked about, as a set.
QueriedIds(q) ==
  CASE q.op = "hasBoundary(BoundaryID)" -> {q.arg}
    [] q.op \in {"hasBoundary(BoundaryName)"} ->
         RangeToSet(getBoundaryIDs(mesh, <<q.arg>>))
    [] q.op = "hasBoundary(vector<BoundaryName>)" ->
         RangeToSet(getBoundaryIDs(mesh, q.arg))
    [] q.op \in {"hasBoundary(set<BoundaryID>)",
                 "isBoundarySubset(set<BoundaryID>)"} -> q.arg
    [] q.op \in {"hasBoundary(vector<BoundaryID>)",
                 "isBoundarySubset(vector<BoundaryID>)"} -> RangeToSet(q.arg)

\* The single-value and collection forms of the membership test.
HasBoundaryForms ==
  {"hasBoundary(BoundaryID)", "hasBoundary(BoundaryName)",
   "hasBoundary(set<BoundaryID>)", "hasBoundary(vector<BoundaryID>)"}

HasBoundaryIdsForms ==
  {"hasBoundary(set<BoundaryID>)", "hasBoundary(vector<BoundaryID>)"}

IsBoundarySubsetForms ==
  {"isBoundarySubset(set<BoundaryID>)", "isBoundarySubset(vector<BoundaryID>)"}

\* C6: a hasBoundary test answers true whenever the any-sentinel is on
\* either side: the object's restriction set contains ANY_BOUNDARY_ID, or
\* the queried value is (or contains) the any-sentinel, in the single id,
\* single name and id set / id vector forms.
C6_AnySentinelEitherSide ==
  (/\ pc = "ready"
   /\ lastQuery.op \in HasBoundaryForms
   /\ \/ ANY_BOUNDARY_ID \in _bnd_ids
      \/ ANY_BOUNDARY_ID \in QueriedIds(lastQuery))
  => lastQuery.result = TRUE

\* C7 as stated: hasBoundary(ids, ALL) answers true if and only if every
\* queried id is in the object's restriction set or the object is
\* any-restricted, for every queried set.
C7_AsStated ==
  (/\ pc = "ready"
   /\ lastQuery.op \in HasBoundaryIdsForms
   /\ lastQuery.type = ALL)
  => (lastQuery.result <=>
        \/ \A id \in QueriedIds(lastQuery) : id \in _bnd_ids
        \/ ANY_BOUNDARY_ID \in _bnd_ids)

\* C7 amended: hasBoundary(ids, ALL) answers true if and only if the queried
\* set contains the any-sentinel, or every queried id is in the object's
\* restriction set, or the object is any-restricted.
C7_AllMode ==
  (/\ pc = "ready"
   /\ lastQuery.op \in HasBoundaryIdsForms
   /\ lastQuery.type = ALL)
  => (lastQuery.result <=>
        \/ ANY_BOUNDARY_ID \in QueriedIds(lastQuery)
        \/ \A id \in QueriedIds(lastQuery) : id \in _bnd_ids
        \/ ANY_BOUNDARY_ID \in _bnd_ids)

\* C7 witness: an object restricted to {2} was asked hasBoundary({2,4}, ALL)
\* and answered false.
C7_Witness ==
  /\ pc = "ready"
  /\ _bnd_ids = {2}
  /\ lastQuery.op = "hasBoundary(set<BoundaryID>)"
  /\ lastQuery.type = ALL
  /\ lastQuery.arg = {2, 4}
  /\ lastQuery.result = FALSE

\* C8 as stated: hasBoundary(ids, ANY) answers true if and only if there is
\* an id in the queried set for which hasBoundary(id) is true, for every
\* queried set, the empty one included.
C8_AsStated ==
  (/\ pc = "ready"
   /\ lastQuery.op \in HasBoundaryIdsForms
   /\ lastQuery.type = ANY)
  => (lastQuery.result <=>
        \E id \in QueriedIds(lastQuery) : hasBoundaryID(_bnd_ids, id))

\* C8 amended: hasBoundary(ids, ANY) answers true if and only if the queried
\* set is empty, or contains the any-sentinel, or holds an id for which
\* hasBoundary(id) is true.
C8_AnyMode ==
  (/\ pc = "ready"
   /\ lastQuery.op \in HasBoundaryIdsForms
   /\ lastQuery.type = ANY)
  => (lastQuery.result <=>
        \/ QueriedIds(lastQuery) = {}
        \/ ANY_BOUNDARY_ID \in QueriedIds(lastQuery)
        \/ \E id \in QueriedIds(lastQuery) : hasBoundaryID(_bnd_ids, id))

\* C8 witness: an object restricted to {4} was asked hasBoundary({2,4}, ANY)
\* and answered true, the first id tested not matching.
C8_Witness ==
  /\ pc = "ready"
  /\ _bnd_ids = {4}
  /\ lastQuery.op = "hasBoundary(set<BoundaryID>)"
  /\ lastQuery.type = ANY
  /\ lastQuery.arg = {2, 4}
  /\ lastQuery.result = TRUE

\* C9: isBoundarySubset(ids) answers true for an empty set and for a set
\* containing the any-sentinel; otherwise, for a concretely restricted
\* object, exactly when ids is a superset of the restriction set, and for an
\* any-restricted object exactly when ids is a superset of the ids known to
\* the mesh.  With the restriction set {2,4} on a mesh knowing {1,2,3,4}:
\* hasBoundary(2) is true, hasBoundary(9) is false and
\* isBoundarySubset({1,2,3,4}) is true.
C9_SubsetTest ==
  /\ (pc = "ready" /\ lastQuery.op \in IsBoundarySubsetForms)
     => (lastQuery.result <=>
           IF QueriedIds(lastQuery) = {} \/ ANY_BOUNDARY_ID \in QueriedIds(lastQuery)
             THEN TRUE
           ELSE IF ANY_BOUNDARY_ID \in _bnd_ids
             THEN mesh.ids \subseteq QueriedIds(lastQuery)
           ELSE _bnd_ids \subseteq QueriedIds(lastQuery))
  /\ (pc = "ready" /\ _bnd_ids = {2, 4} /\ mesh.ids = {1, 2, 3, 4})
     => (/\ hasBoundaryID(_bnd_ids, 2)
         /\ ~hasBoundaryID(_bnd_ids, 9)
         /\ isBoundarySubsetSet(_bnd_ids, mesh, {1, 2, 3, 4}))

\* C9 witness: the object of the example, names "left" and "right" resolved
\* to {2,4} on a mesh knowing {1,2,3,4}, was asked isBoundarySubset({2})
\* and answered false.
C9_Witness ==
  /\ pc = "ready"
  /\ parameters.boundary = <<"left", "right">>
  /\ _bnd_ids = {2, 4}
  /\ mesh.ids = {1, 2, 3, 4}
  /\ lastQuery.op = "isBoundarySubset(set<BoundaryID>)"
  /\ lastQuery.arg = {2}
  /\ lastQuery.result = FALSE

\* C10: every query leaves the restriction set, the stored name list, the
\* restricted flag and the block id set unchanged, and the answer it gave is
\* the answer the same query gets when asked again of the object as the
\* query left it.
C10_QueriesArePure ==
  [][pc = "ready"
     => /\ <<_bnd_ids, _boundary_names, _boundary_restricted, _block_ids>>'
             = <<_bnd_ids, _boundary_names, _boundary_restricted, _block_ids>>
        /\ lastQuery' # NoQuery
             => lastQuery'.result
                  = Answer(lastQuery', _bnd_ids', _boundary_names', mesh')]_vars

\* C10 witness: a dual-restricted object (blocks {1}, boundaries {2,4}) was
\* asked hasBoundary(<<"left", "right">>) and answered true.
C10_Witness ==
  /\ pc = "ready"
  /\ _block_ids = {1}
  /\ _bnd_ids = {2, 4}
  /\ _boundary_restricted
  /\ lastQuery.op = "hasBoundary(vector<BoundaryName>)"
  /\ lastQuery.arg = <<"left", "right">>
  /\ lastQuery.result = TRUE

(***************************************************************************)
(* Further properties of the construction.                                 *)
(***************************************************************************)
\* The ids the 'boundary' input stands for, from the input alone: nothing
\* when it is not supplied, the any-sentinel when the reserved name is in
\* the list, the ids the names resolve to otherwise.
InputIds ==
  IF ~parameters.boundary_valid THEN {}
  ELSE IF \E i \in 1..Len(parameters.boundary) :
            parameters.boundary[i] = AnyBoundaryName
    THEN {ANY_BOUNDARY_ID}
  ELSE {mesh.names[parameters.boundary[i]] : i \in 1..Len(parameters.boundary)}

\* A mesh is reachable through '_mesh' or '_fe_problem'.
MeshSupplied == parameters._mesh \/ parameters._fe_problem

\* C14: the dual-restriction error is raised only when _dual_restrictable
\* is false, the boundary set is present, non-empty and not "any" (the
\* sentinel supplied by name included), and the block set is non-empty
\* without the any-block sentinel; in every other case it is not raised.
C14_DualErrorOnlyWhenConcrete ==
  (pc # "start" /\ error.kind = "dual_restriction")
  => (/\ ~parameters._dual_restrictable
      /\ InputIds # {}
      /\ ANY_BOUNDARY_ID \notin InputIds
      /\ BlockRestricted(_block_ids))

\* C15: the object is marked boundary-restricted exactly when the
\* restriction set was non-empty before the empty-to-any substitution: an
\* object given the name "ANY_BOUNDARY_ID" is marked restricted with the
\* set {ANY_BOUNDARY_ID}, an object with no or empty boundary input has the
\* same set and is marked unrestricted.
C15_RestrictedFlag ==
  pc = "ready"
  => (/\ _boundary_restricted <=> InputIds # {}
      /\ InputIds = {ANY_BOUNDARY_ID}
           => (_boundary_restricted /\ _bnd_ids = {ANY_BOUNDARY_ID})
      /\ EmptyBoundaryInput
           => (~_boundary_restricted /\ _bnd_ids = {ANY_BOUNDARY_ID}))

\* C15 witness: the object was given the reserved name alone; it holds the
\* set {ANY_BOUNDARY_ID}, as an object without boundary input does, and is
\* marked restricted.
C15_Witness ==
  /\ pc = "ready"
  /\ parameters.boundary = <<AnyBoundaryName>>
  /\ _bnd_ids = {ANY_BOUNDARY_ID}
  /\ _boundary_restricted

\* C16: the checks run in the order missing mesh, dual restriction, ids
\* absent from the mesh, and stop at the first that fails: the error raised
\* is that of the first failing check, and an input that meets both the
\* dual-restriction condition and the missing-id condition gets the
\* dual-restriction error.
C16_FirstFailureWins ==
  pc # "start"
  => LET dual == /\ ~parameters._dual_restrictable
                 /\ InputIds # {} /\ ANY_BOUNDARY_ID \notin InputIds
                 /\ BlockRestricted(_block_ids)
         missing == /\ ANY_BOUNDARY_ID \notin InputIds
                    /\ InputIds \ mesh.ids # {}
     IN  /\ error.kind \in {"none", "no_mesh", "dual_restriction", "missing_ids"}
         /\ error.kind = "no_mesh" <=> ~MeshSupplied
         /\ (MeshSupplied /\ dual) => error.kind = "dual_restriction"
         /\ error.kind = "missing_ids" <=> (MeshSupplied /\ ~dual /\ missing)
         /\ pc = "ready" <=> error.kind = "none"

\* C16 witness: boundary id 4 is unknown to the mesh and the object is
\* restricted to block 1 without being dual restrictable; the error raised
\* is the dual-restriction error.
C16_Witness ==
  /\ pc = "error"
  /\ MeshSupplied
  /\ InputIds = {4}
  /\ 4 \notin mesh.ids
  /\ _block_ids = {1}
  /\ ~parameters._dual_restrictable
  /\ error.kind = "dual_restriction"

(***************************************************************************)
(* Properties of the property value container.                             *)
(***************************************************************************)
\* The slots whose _value points to storage a.
Pointing(sl, a) == {s \in SlotAddrs : sl[s].state = "live" /\ sl[s]._value._data = a}

C12_ShallowCopyAliases ==
  \A pr \in copied :
    LET dst == pr[1]
        src == pr[2]
    IN  /\ slots[dst]._value._data = slots[src]._value._data
        /\ MaterialProperty_size(slots, dst) = MaterialProperty_size(slots, src)
        /\ Accessible(src)
             => Elements(slots, arrays, dst) = Elements(slots, arrays, src)

\* C12 witness: an element of src was written after the copy, and dst reads
\* a sized inner sequence there, which only a write can have stored.
C12_Witness ==
  /\ lastOp.op = "write"
  /\ \E pr \in copied :
       /\ lastOp.slot = pr[2]
       /\ slots[pr[1]].type = VectorType
       /\ Accessible(pr[1])
       /\ MaterialProperty_size(slots, pr[1]) > 0
       /\ \E i \in 1..MaterialProperty_size(slots, pr[1]) :
            Elements(slots, arrays, pr[1])[i] # <<>>

\* C11: store appends to the stream the elements 0..size()-1 of a scalar
\* slot in index order, ElemBytes bytes each, and load of the stream from
\* where the store began into a slot of the same size gives that slot the
\* values stored, in the same order; neither changes the size of a slot.
C11_StoreLoadRoundTrip ==
  [][/\ (lastOp'.op = "store" /\ stream' # stream)
          => LET s == lastOp'.slot
                 N == MaterialProperty_size(slots, s)
             IN  /\ slots' = slots
                 /\ arrays' = arrays
                 /\ Len(stream') = Len(stream) + N * ElemBytes
                 /\ SubSeq(stream', 1, Len(stream)) = stream
                 /\ \A i \in 0..(N - 1) :
                      materialPropertyLoad(stream', Len(stream) + i * ElemBytes)
                        = MaterialProperty_at(slots, arrays, s, i)
     /\ (/\ lastOp.op = "store"
         /\ lastOp'.op = "load"
         /\ lastOp'.arg = lastOp.arg
         /\ MaterialProperty_size(slots, lastOp'.slot)
              = MaterialProperty_size(slots, lastOp.slot))
          => /\ slots' = slots
             /\ Elements(slots', arrays', lastOp'.slot)
                  = Elements(slots, arrays, lastOp.slot)
             /\ rpos' = rpos + MaterialProperty_size(slots, lastOp.slot) * ElemBytes
    ]_vars

\* C11 witness: a slot has just been loaded from the store of another slot
\* holding two different values, and holds them in the same order.
C11_Witness ==
  /\ lastOp.op = "load"
  /\ lastOp.result # NULL
  /\ lastOp.result # lastOp.slot
  /\ slots[lastOp.result]._value._data # slots[lastOp.slot]._value._data
  /\ MaterialProperty_size(slots, lastOp.slot) > 1
  /\ MaterialProperty_at(slots, arrays, lastOp.slot, 0)
       # MaterialProperty_at(slots, arrays, lastOp.slot, 1)
  /\ Elements(slots, arrays, lastOp.slot) = Elements(slots, arrays, lastOp.result)

\* The slots the list holds.
Listed(list) == {list[k] : k \in 1..Len(list)}

\* C17: a call of destroy deallocates each slot of the list once and leaves
\* the list as it was, entries and order; no other operation deallocates a
\* slot, so a slot is deallocated only by destroy and only if listed; a
\* second destroy deallocates the same slots once more.
C17_OnlyDestroyDeallocates ==
  [][/\ (deletes' # deletes \/ \E a \in SlotAddrs :
                                 slots[a].state = "live" /\ slots'[a].state # "live")
          => (lastOp'.op = "destroy" /\ lastOp' # lastOp)
     /\ (lastOp'.op = "destroy" /\ lastOp' # lastOp)
          => /\ props' = props
             /\ \A a \in SlotAddrs :
                  deletes'[a] = deletes[a] + (IF a \in Listed(props) THEN 1 ELSE 0)
             /\ \A a \in Listed(props) : slots'[a].state = "deleted"
             /\ \A a \in SlotAddrs \ Listed(props) : slots'[a] = slots[a]
             /\ lastOp'.arg > 1 => ub'
    ]_vars

\* C17 witness: the list holds the two declared slots and a clone, destroy
\* has been called twice and each listed slot has been deallocated twice.
C17_Witness ==
  /\ lastOp.op = "destroy"
  /\ lastOp.arg = 2
  /\ Len(props) > 2
  /\ \A a \in Listed(props) : deletes[a] = 2
  /\ ub

====
